---- MODULE Spec2Model ----
(***************************************************************************)
(* Model of the Teams <-> Einstein AI relay (src/index.js): the session    *)
(* cache, getOrCreateSession, sendEinsteinMessage, the botLogic turn       *)
(* handler, the periodic cleanup and the streaming endpoint.               *)
(*                                                                         *)
(* Node runs every handler to its next await without preemption, so one    *)
(* action is the code between two suspension points.  A backend call is in *)
(* flight while pc names it; its outcome is chosen when it returns.        *)
(*                                                                         *)
(* context.sendActivity and res.write belong to the chat SDK / HTTP layer  *)
(* and are taken to succeed; the access token is passed through unchanged  *)
(* and is not represented.                                                 *)
(***************************************************************************)
EXTENDS Integers, Sequences, FiniteSets, TLC

(***************************************************************************)
(* Bounds of the model.                                                    *)
(***************************************************************************)
\* the clock is sampled at k * SESSION_TIMEOUT, k = 0 .. MaxPeriods, and one
\* millisecond after the last of these
MaxPeriods == 1
\* chunks a backend stream delivers at most
MaxChunks == 2

(***************************************************************************)
(* Program constants.                                                      *)
(***************************************************************************)
\* process.env.MIN_SESSION || 30
MIN_SESSION == 30
SESSION_TIMEOUT == MIN_SESSION * 60 * 1000

StatusMessage == "Processing your request..."
ErrorReply == "Error communicating with Salesforce Einstein AI."
SESSION_EXPIRED == "SESSION_EXPIRED"
FailedToSend == "Failed to send message to Einstein AI."
FailedToCreate == "Failed to create Einstein AI session."
FailedToGetToken == "Failed to get Salesforce token."
DefaultConversation == "default-conversation"

(***************************************************************************)
(* Inputs.                                                                 *)
(***************************************************************************)
Turns == {"t1", "t2"}
Streams == {"s1"}
Procs == Turns \cup Streams
ConvIds == {"c1", "c2"}
NoId == "none"
AllConvs == ConvIds \cup {DefaultConversation}
ActivityTypes == {"message", "conversationUpdate"}
Replies == {"r1", "r2"}
Chunks == {"k1", "k2"}
Instants ==
    {k * SESSION_TIMEOUT : k \in 0..MaxPeriods}
    \cup {MaxPeriods * SESSION_TIMEOUT + 1}

\* request slots are taken in order
Before(p) == IF p = "t2" THEN {"t1"} ELSE {}

\* conversation ids are interchangeable: the first turn takes the first
ConvChoices(p) == IF p = "t1" THEN {"c1"} ELSE ConvIds

None == [sessionId |-> 0, timestamp |-> -1]

\* what the backend answers to POST .../messages; status 0 is no response
\* at all (network error), status 200 resolves, anything else rejects
SendResponses ==
    {[status |-> 200, data |-> "", messages |-> <<r>>] : r \in Replies}
    \cup {[status |-> 200, data |-> "", messages |-> <<>>],
          [status |-> 404, data |-> "", messages |-> <<>>],
          [status |-> 500, data |-> "session not found", messages |-> <<>>],
          [status |-> 500, data |-> "internal error", messages |-> <<>>],
          [status |-> 0, data |-> "", messages |-> <<>>]}

\* how the streaming request can reject
OpenFailures ==
    {[response |-> FALSE, stringifies |-> TRUE, detail |-> "Network Error"],
     [response |-> TRUE, stringifies |-> TRUE, detail |-> "[stream]"],
     [response |-> TRUE, stringifies |-> FALSE, detail |-> "[stream]"]}

VARIABLES
    sessionCache,   \* conversation id -> {sessionId, timestamp} or None
    now,            \* Date.now()
    nextSessionId,  \* the backend's next fresh session id
    cleanupAt,      \* `now` of the last cleanup run (-1: none yet)
    expiredCount,   \* expiredCount of the last cleanup run
    pc,             \* each request's suspension point
    conv,           \* each request's conversationId
    sessionId,      \* each request's local sessionId
    gnow,           \* `now` captured inside a pending getOrCreateSession
    retried,        \* the request is inside its catch-and-retry branch
    out,            \* what the caller has received
    log             \* the calls each request has completed, with results

vars == <<sessionCache, now, nextSessionId, cleanupAt, expiredCount, pc, conv,
          sessionId, gnow, retried, out, log>>

\* a log entry: the call, whether it succeeded, the session id it used or
\* gave, and the text it gave
Ev(op, ok, sid, val) ==
    [op |-> op, ok |-> ok, sid |-> sid, val |-> val, cached |-> 0, age |-> -1]

\* the log entry of a cache lookup: whether it hit, the id it returned, the
\* id of the entry it found (0: none) and that entry's age
LookupEv(cachedSession, t, hit) ==
    [op |-> "lookup", ok |-> hit,
     sid |-> IF hit THEN cachedSession.sessionId ELSE 0, val |-> "",
     cached |-> cachedSession.sessionId,
     age |-> IF cachedSession.sessionId = 0 THEN -1
             ELSE t - cachedSession.timestamp]

Activity(text) == [event |-> "message", data |-> text]
DataEvent(chunk) == [event |-> "data", data |-> chunk]
DoneEvent == [event |-> "done", data |-> ""]
ErrorEvent(detail) == [event |-> "error", data |-> detail]
EndOfResponse == [event |-> "end", data |-> ""]

Init ==
    /\ sessionCache = [c \in AllConvs |-> None]
    /\ now = 0
    /\ nextSessionId = 1
    /\ cleanupAt = -1
    /\ expiredCount = 0
    /\ pc = [p \in Procs |-> "idle"]
    /\ conv = [p \in Procs |-> NoId]
    /\ sessionId = [p \in Procs |-> 0]
    /\ gnow = [p \in Procs |-> 0]
    /\ retried = [p \in Procs |-> FALSE]
    /\ out = [p \in Procs |-> <<>>]
    /\ log = [p \in Procs |-> <<>>]

(***************************************************************************)
(* sendEinsteinMessage: what the call gives for a backend response.        *)
(***************************************************************************)
IncludesSessionNotFound(data) == data \in {"session not found"}

sendEinsteinMessage(resp) ==
    IF resp.status = 200 /\ Len(resp.messages) >= 1
    THEN [ok |-> TRUE, val |-> resp.messages[1]]
    ELSE IF resp.status = 404
            \/ (resp.status # 200 /\ resp.status # 0 /\ resp.data # ""
                /\ IncludesSessionNotFound(resp.data))
         THEN [ok |-> FALSE, val |-> SESSION_EXPIRED]
         ELSE [ok |-> FALSE, val |-> FailedToSend]

(***************************************************************************)
(* getOrCreateSession.                                                     *)
(***************************************************************************)
\* mutant: the comparison is inverted
CacheHitInverted(cachedSession, t) ==
    cachedSession # None /\ t - cachedSession.timestamp > SESSION_TIMEOUT

\* mutant: an entry is reused whatever its age
CacheHitNoExpiry(cachedSession, t) == cachedSession # None

\* mutant: an entry aged exactly SESSION_TIMEOUT is still reused
CacheHitInclusive(cachedSession, t) ==
    cachedSession # None /\ t - cachedSession.timestamp <= SESSION_TIMEOUT

CacheHit(cachedSession, t) ==
    cachedSession # None /\ t - cachedSession.timestamp < SESSION_TIMEOUT

\* The synchronous head of getOrCreateSession, run on `cache`: a hit
\* fulfils the call with the cached id, a miss issues createEinsteinSession.
\* `pre` are the log entries of the code that ran just before the call.
GetOrCreateSessionCall(p, cache, pre) ==
    LET cachedSession == cache[conv[p]]
        hit == CacheHit(cachedSession, now)
    IN  /\ pc' = [pc EXCEPT ![p] = IF hit THEN "resolved" ELSE "create"]
        /\ sessionId' = [sessionId EXCEPT
                           ![p] = IF hit THEN cachedSession.sessionId ELSE @]
        /\ gnow' = [gnow EXCEPT ![p] = IF hit THEN @ ELSE now]
        /\ log' = [log EXCEPT ![p] = (@ \o pre) \o
                     <<LookupEv(cachedSession, now, hit)>>]

\* mutant: the entry is stored under the default conversation id
CreateOkWrongKey(p) ==
    /\ pc[p] = "create"
    /\ sessionCache' = [sessionCache EXCEPT ![DefaultConversation] =
                          [sessionId |-> nextSessionId, timestamp |-> gnow[p]]]
    /\ sessionId' = [sessionId EXCEPT ![p] = nextSessionId]
    /\ nextSessionId' = nextSessionId + 1
    /\ gnow' = [gnow EXCEPT ![p] = 0]
    /\ pc' = [pc EXCEPT ![p] = "resolved"]
    /\ log' = [log EXCEPT ![p] = Append(@,
                 Ev("createEinsteinSession", TRUE, nextSessionId, ""))]
    /\ UNCHANGED <<now, cleanupAt, expiredCount, conv, retried, out>>

\* mutant: an entry another request has stored meanwhile is kept
CreateOkKeepsExisting(p) ==
    /\ pc[p] = "create"
    /\ sessionCache' =
          IF sessionCache[conv[p]] # None THEN sessionCache
          ELSE [sessionCache EXCEPT ![conv[p]] =
                  [sessionId |-> nextSessionId, timestamp |-> gnow[p]]]
    /\ sessionId' = [sessionId EXCEPT ![p] = nextSessionId]
    /\ nextSessionId' = nextSessionId + 1
    /\ gnow' = [gnow EXCEPT ![p] = 0]
    /\ pc' = [pc EXCEPT ![p] = "resolved"]
    /\ log' = [log EXCEPT ![p] = Append(@,
                 Ev("createEinsteinSession", TRUE, nextSessionId, ""))]
    /\ UNCHANGED <<now, cleanupAt, expiredCount, conv, retried, out>>

\* createEinsteinSession returned a session id: cache it, fulfil the call
CreateOk(p) ==
    /\ pc[p] = "create"
    /\ sessionCache' = [sessionCache EXCEPT ![conv[p]] =
                          [sessionId |-> nextSessionId, timestamp |-> gnow[p]]]
    /\ sessionId' = [sessionId EXCEPT ![p] = nextSessionId]
    /\ nextSessionId' = nextSessionId + 1
    /\ gnow' = [gnow EXCEPT ![p] = 0]
    /\ pc' = [pc EXCEPT ![p] = "resolved"]
    /\ log' = [log EXCEPT ![p] = Append(@,
                 Ev("createEinsteinSession", TRUE, nextSessionId, ""))]
    /\ UNCHANGED <<now, cleanupAt, expiredCount, conv, retried, out>>

\* mutant: the entry is written before the creation result is known
CreateFailStoresEntry(p) ==
    /\ pc[p] = "create"
    /\ sessionCache' = [sessionCache EXCEPT ![conv[p]] =
                          [sessionId |-> 0, timestamp |-> gnow[p]]]
    /\ gnow' = [gnow EXCEPT ![p] = 0]
    /\ pc' = [pc EXCEPT ![p] = "rejected"]
    /\ log' = [log EXCEPT ![p] = Append(@,
                 Ev("createEinsteinSession", FALSE, 0, FailedToCreate))]
    /\ UNCHANGED <<now, nextSessionId, cleanupAt, expiredCount, conv,
                   sessionId, retried, out>>

\* createEinsteinSession threw: getOrCreateSession rejects
CreateFail(p) ==
    /\ pc[p] = "create"
    /\ gnow' = [gnow EXCEPT ![p] = 0]
    /\ pc' = [pc EXCEPT ![p] = "rejected"]
    /\ log' = [log EXCEPT ![p] = Append(@,
                 Ev("createEinsteinSession", FALSE, 0, FailedToCreate))]
    /\ UNCHANGED <<sessionCache, now, nextSessionId, cleanupAt, expiredCount, conv,
                   sessionId, retried, out>>

\* sessionCache.delete(c), with the session id of the entry it removes
DeleteEv(c) == Ev("delete", sessionCache[c] # None, sessionCache[c].sessionId, "")

(***************************************************************************)
(* botLogic.                                                               *)
(***************************************************************************)
\* the outer catch: the fixed error reply ends the turn
OuterCatch(p, events) ==
    /\ out' = [out EXCEPT ![p] = Append(@, Activity(ErrorReply))]
    /\ pc' = [pc EXCEPT ![p] = "done"]
    /\ log' = [log EXCEPT ![p] = @ \o events]
    /\ UNCHANGED <<sessionCache, now, nextSessionId, cleanupAt, expiredCount, conv,
                   sessionId, gnow, retried>>

BotStart(p, c, type) ==
    /\ pc[p] = "idle"
    /\ \A q \in Before(p) : pc[q] # "idle"
    /\ IF type = "message"
       THEN /\ conv' = [conv EXCEPT ![p] = c]
            /\ out' = [out EXCEPT ![p] = <<Activity(StatusMessage)>>]
            /\ pc' = [pc EXCEPT ![p] = "token"]
       ELSE /\ pc' = [pc EXCEPT ![p] = "ignored"]
            /\ UNCHANGED <<conv, out>>
    /\ UNCHANGED <<sessionCache, now, nextSessionId, cleanupAt, expiredCount,
                   sessionId, gnow, retried, log>>

\* mutant: a reused entry is stamped again with the time of the reuse
BotTokenOkTouches(p) ==
    /\ pc[p] = "token"
    /\ GetOrCreateSessionCall(p, sessionCache,
                              <<Ev("getSalesforceToken", TRUE, 0, "")>>)
    /\ sessionCache' =
          IF CacheHit(sessionCache[conv[p]], now)
          THEN [sessionCache EXCEPT ![conv[p]].timestamp = now]
          ELSE sessionCache
    /\ UNCHANGED <<now, nextSessionId, cleanupAt, expiredCount, conv,
                   retried, out>>

BotTokenOk(p) ==
    /\ pc[p] = "token"
    /\ GetOrCreateSessionCall(p, sessionCache,
                              <<Ev("getSalesforceToken", TRUE, 0, "")>>)
    /\ UNCHANGED <<sessionCache, now, nextSessionId, cleanupAt, expiredCount, conv,
                   retried, out>>

\* mutant: a failed token fetch is tried again
BotTokenFailRetries(p) ==
    /\ pc[p] = "token"
    /\ Len(log[p]) < 2
    /\ log' = [log EXCEPT ![p] = Append(@,
                 Ev("getSalesforceToken", FALSE, 0, FailedToGetToken))]
    /\ UNCHANGED <<sessionCache, now, nextSessionId, cleanupAt, expiredCount,
                   pc, conv, sessionId, gnow, retried, out>>

BotTokenFail(p) ==
    /\ pc[p] = "token"
    /\ OuterCatch(p, <<Ev("getSalesforceToken", FALSE, 0, FailedToGetToken)>>)

\* getOrCreateSession fulfilled: sendEinsteinMessage is issued
BotResolved(p) ==
    /\ pc[p] = "resolved"
    /\ pc' = [pc EXCEPT ![p] = "send"]
    /\ UNCHANGED <<sessionCache, now, nextSessionId, cleanupAt, expiredCount, conv,
                   sessionId, gnow, retried, out, log>>

\* mutant: the re-thrown error leaves botLogic, no reply is sent
BotRejectedEscapes(p) ==
    /\ pc[p] = "rejected"
    /\ pc' = [pc EXCEPT ![p] = "uncaught"]
    /\ UNCHANGED <<sessionCache, now, nextSessionId, cleanupAt, expiredCount,
                   conv, sessionId, gnow, retried, out, log>>

\* getOrCreateSession rejected: never SESSION_EXPIRED, so it is re-thrown
BotRejected(p) ==
    /\ pc[p] = "rejected"
    /\ OuterCatch(p, <<>>)

SendEv(p, r) == Ev("sendEinsteinMessage", r.ok, sessionId[p], r.val)

BotReply(p, r) ==
    /\ out' = [out EXCEPT ![p] = Append(@, Activity(r.val))]
    /\ pc' = [pc EXCEPT ![p] = "done"]
    /\ log' = [log EXCEPT ![p] = Append(@, SendEv(p, r))]
    /\ UNCHANGED <<sessionCache, now, nextSessionId, cleanupAt, expiredCount, conv,
                   sessionId, gnow, retried>>

\* mutant: the retry resolves again without evicting the entry
BotRetryWithoutEvict(p, r) ==
    /\ retried' = [retried EXCEPT ![p] = TRUE]
    /\ GetOrCreateSessionCall(p, sessionCache, <<SendEv(p, r)>>)
    /\ UNCHANGED <<sessionCache, now, nextSessionId, cleanupAt, expiredCount,
                   conv, out>>

\* mutant: the eviction clears the whole store
BotEvictAllAndRetry(p, r) ==
    /\ sessionCache' = [c \in AllConvs |-> None]
    /\ retried' = [retried EXCEPT ![p] = TRUE]
    /\ GetOrCreateSessionCall(p, sessionCache',
                              <<SendEv(p, r), DeleteEv(conv[p])>>)
    /\ UNCHANGED <<now, nextSessionId, cleanupAt, expiredCount, conv, out>>

\* mutant: the second lookup sees the store as it was before the eviction
BotEvictThenStaleLookup(p, r) ==
    /\ sessionCache' = [sessionCache EXCEPT ![conv[p]] = None]
    /\ retried' = [retried EXCEPT ![p] = TRUE]
    /\ GetOrCreateSessionCall(p, sessionCache,
                              <<SendEv(p, r), DeleteEv(conv[p])>>)
    /\ UNCHANGED <<now, nextSessionId, cleanupAt, expiredCount, conv, out>>

\* the inner catch on SESSION_EXPIRED: evict, then resolve again
BotEvictAndRetry(p, r) ==
    /\ sessionCache' = [sessionCache EXCEPT ![conv[p]] = None]
    /\ retried' = [retried EXCEPT ![p] = TRUE]
    /\ GetOrCreateSessionCall(p, sessionCache',
                              <<SendEv(p, r), DeleteEv(conv[p])>>)
    /\ UNCHANGED <<now, nextSessionId, cleanupAt, expiredCount, conv, out>>

\* mutant: every SESSION_EXPIRED is retried, also the retry's own
BotSendFailedLoops(p, r) ==
    IF r.val = SESSION_EXPIRED
    THEN BotEvictAndRetry(p, r)
    ELSE OuterCatch(p, <<SendEv(p, r)>>)

\* mutant: any failure of the first dispatch evicts and retries
BotSendFailedRetriesAny(p, r) ==
    IF ~retried[p]
    THEN BotEvictAndRetry(p, r)
    ELSE OuterCatch(p, <<SendEv(p, r)>>)

\* sendEinsteinMessage threw `r.val`
BotSendFailed(p, r) ==
    IF ~retried[p]
    THEN \* thrown in the inner try: the inner catch runs
         IF r.val = SESSION_EXPIRED /\ ~retried[p]
         THEN BotEvictAndRetry(p, r)
         ELSE OuterCatch(p, <<SendEv(p, r)>>)
    ELSE \* thrown inside the inner catch: only the outer catch is left
         OuterCatch(p, <<SendEv(p, r)>>)

BotSendReturn(p, resp) ==
    /\ pc[p] = "send"
    /\ LET r == sendEinsteinMessage(resp)
       IN  IF r.ok THEN BotReply(p, r) ELSE BotSendFailed(p, r)

(***************************************************************************)
(* GET /api/messages/stream.                                               *)
(***************************************************************************)
\* the outer catch: an error event with the detail, then res.end()
StreamCatch(s, detail, events) ==
    /\ out' = [out EXCEPT ![s] = @ \o <<ErrorEvent(detail), EndOfResponse>>]
    /\ pc' = [pc EXCEPT ![s] = "done"]
    /\ log' = [log EXCEPT ![s] = @ \o events]
    /\ UNCHANGED <<sessionCache, now, nextSessionId, cleanupAt, expiredCount, conv,
                   sessionId, gnow, retried>>

StreamStart(s, q) ==
    /\ pc[s] = "idle"
    /\ conv' = [conv EXCEPT ![s] = IF q = NoId THEN DefaultConversation ELSE q]
    /\ pc' = [pc EXCEPT ![s] = "token"]
    /\ UNCHANGED <<sessionCache, now, nextSessionId, cleanupAt, expiredCount,
                   sessionId, gnow, retried, out, log>>

StreamTokenOk(s) ==
    /\ pc[s] = "token"
    /\ GetOrCreateSessionCall(s, sessionCache,
                              <<Ev("getSalesforceToken", TRUE, 0, "")>>)
    /\ UNCHANGED <<sessionCache, now, nextSessionId, cleanupAt, expiredCount, conv,
                   retried, out>>

StreamTokenFail(s) ==
    /\ pc[s] = "token"
    /\ StreamCatch(s, FailedToGetToken,
                   <<Ev("getSalesforceToken", FALSE, 0, FailedToGetToken)>>)

\* getOrCreateSession fulfilled: the streaming request is issued
StreamResolved(s) ==
    /\ pc[s] = "resolved"
    /\ pc' = [pc EXCEPT ![s] = "open"]
    /\ UNCHANGED <<sessionCache, now, nextSessionId, cleanupAt, expiredCount, conv,
                   sessionId, gnow, retried, out, log>>

\* getOrCreateSession rejected: the inner catch evicts and resolves again;
\* a rejection of that second call goes to the outer catch
StreamRejected(s) ==
    /\ pc[s] = "rejected"
    /\ IF ~retried[s]
       THEN /\ sessionCache' = [sessionCache EXCEPT ![conv[s]] = None]
            /\ retried' = [retried EXCEPT ![s] = TRUE]
            /\ GetOrCreateSessionCall(s, sessionCache', <<DeleteEv(conv[s])>>)
            /\ UNCHANGED <<now, nextSessionId, cleanupAt, expiredCount, conv, out>>
       ELSE StreamCatch(s, FailedToCreate, <<>>)

\* the streaming request resolved: the data and end listeners are attached
StreamOpenOk(s) ==
    /\ pc[s] = "open"
    /\ pc' = [pc EXCEPT ![s] = "streaming"]
    /\ log' = [log EXCEPT ![s] = Append(@, Ev("stream", TRUE, sessionId[s], ""))]
    /\ UNCHANGED <<sessionCache, now, nextSessionId, cleanupAt, expiredCount, conv,
                   sessionId, gnow, retried, out>>

\* The streaming request rejected.  Without a response the detail is
\* error.message.  With one, error.response.data is the response stream
\* object, and JSON.stringify of it either yields some text or throws inside
\* the catch block, which leaves the response unwritten and open.
StreamOpenFail(s, f) ==
    /\ pc[s] = "open"
    /\ IF f.stringifies
       THEN StreamCatch(s, f.detail, <<Ev("stream", FALSE, sessionId[s], f.detail)>>)
       ELSE /\ pc' = [pc EXCEPT ![s] = "uncaught"]
            /\ log' = [log EXCEPT ![s] =
                         Append(@, Ev("stream", FALSE, sessionId[s], f.detail))]
            /\ UNCHANGED <<sessionCache, now, nextSessionId, cleanupAt, expiredCount,
                           conv, sessionId, gnow, retried, out>>

NumChunks(s) == Cardinality({i \in 1..Len(log[s]) : log[s][i].op = "chunk"})

\* mutant: a chunk is written ahead of the chunks relayed before it
StreamDataPrepends(s, chunk) ==
    /\ pc[s] = "streaming"
    /\ NumChunks(s) < MaxChunks
    /\ out' = [out EXCEPT ![s] = <<DataEvent(chunk)>> \o @]
    /\ log' = [log EXCEPT ![s] = Append(@, Ev("chunk", TRUE, 0, chunk))]
    /\ UNCHANGED <<sessionCache, now, nextSessionId, cleanupAt, expiredCount,
                   pc, conv, sessionId, gnow, retried>>

\* response.data.on('data')
StreamData(s, chunk) ==
    /\ pc[s] = "streaming"
    /\ NumChunks(s) < MaxChunks
    /\ out' = [out EXCEPT ![s] = Append(@, DataEvent(chunk))]
    /\ log' = [log EXCEPT ![s] = Append(@, Ev("chunk", TRUE, 0, chunk))]
    /\ UNCHANGED <<sessionCache, now, nextSessionId, cleanupAt, expiredCount, pc, conv,
                   sessionId, gnow, retried>>

\* response.data.on('end')
StreamEnd(s) ==
    /\ pc[s] = "streaming"
    /\ out' = [out EXCEPT ![s] = @ \o <<DoneEvent, EndOfResponse>>]
    /\ pc' = [pc EXCEPT ![s] = "done"]
    /\ log' = [log EXCEPT ![s] = Append(@, Ev("end", TRUE, 0, ""))]
    /\ UNCHANGED <<sessionCache, now, nextSessionId, cleanupAt, expiredCount, conv,
                   sessionId, gnow, retried>>

\* the backend stream emits 'error': no listener is attached for it, so the
\* event is thrown outside the handler's try and nothing is written
StreamError(s) ==
    /\ pc[s] = "streaming"
    /\ pc' = [pc EXCEPT ![s] = "uncaught"]
    /\ log' = [log EXCEPT ![s] = Append(@, Ev("end", FALSE, 0, ""))]
    /\ UNCHANGED <<sessionCache, now, nextSessionId, cleanupAt, expiredCount, conv,
                   sessionId, gnow, retried, out>>

(***************************************************************************)
(* The periodic cleanup.                                                   *)
(***************************************************************************)
\* mutant: an entry aged exactly SESSION_TIMEOUT is swept too
ExpiredInclusive(session, t) == t - session.timestamp >= SESSION_TIMEOUT

Expired(session, t) == t - session.timestamp > SESSION_TIMEOUT

RECURSIVE ForEachCleanup(_, _, _, _)
ForEachCleanup(cache, keys, t, count) ==
    IF keys = {}
    THEN [cache |-> cache, count |-> count]
    ELSE LET c == CHOOSE k \in keys : TRUE
         IN  IF Expired(cache[c], t)
             THEN ForEachCleanup([cache EXCEPT ![c] = None], keys \ {c}, t,
                                 count + 1)
             ELSE ForEachCleanup(cache, keys \ {c}, t, count)

Cleanup ==
    /\ LET r == ForEachCleanup(sessionCache,
                               {c \in AllConvs : sessionCache[c] # None},
                               now, 0)
       IN  /\ sessionCache' = r.cache
           /\ expiredCount' = r.count
    /\ cleanupAt' = now
    /\ UNCHANGED <<now, nextSessionId, pc, conv, sessionId, gnow, retried,
                   out, log>>

\* time passes
Tick ==
    /\ \E t \in Instants : t > now /\ now' = t
    /\ UNCHANGED <<sessionCache, nextSessionId, cleanupAt, expiredCount, pc, conv,
                   sessionId, gnow, retried, out, log>>

\* two concurrent message turns, the cleanup timer and the clock
Next ==
    \/ \E p \in Turns : \E c \in ConvChoices(p), type \in ActivityTypes :
          BotStart(p, c, type)
    \/ \E p \in Turns : BotTokenOk(p)
    \/ \E p \in Turns : BotTokenFail(p)
    \/ \E p \in Turns : CreateOk(p)
    \/ \E p \in Turns : CreateFail(p)
    \/ \E p \in Turns : BotResolved(p)
    \/ \E p \in Turns : BotRejected(p)
    \/ \E p \in Turns, resp \in SendResponses : BotSendReturn(p, resp)
    \/ Cleanup
    \/ Tick

Spec == Init /\ [][Next]_vars

\* Every backend call of a turn returns, and a continuation that is ready
\* runs.
BackendReturns(p) ==
    \/ BotTokenOk(p) \/ BotTokenFail(p)
    \/ CreateOk(p) \/ CreateFail(p)
    \/ \E resp \in SendResponses : BotSendReturn(p, resp)

Continues(p) == BotResolved(p) \/ BotRejected(p)

\* Two message turns, the second arriving after the first has ended, with
\* the cleanup timer and the clock.
SeqNext ==
    \/ \E p \in Turns : \E c \in ConvChoices(p), type \in ActivityTypes :
          /\ \A q \in Before(p) : pc[q] \in {"done", "ignored"}
          /\ BotStart(p, c, type)
    \/ \E p \in Turns : BotTokenOk(p)
    \/ \E p \in Turns : BotTokenFail(p)
    \/ \E p \in Turns : CreateOk(p)
    \/ \E p \in Turns : CreateFail(p)
    \/ \E p \in Turns : BotResolved(p)
    \/ \E p \in Turns : BotRejected(p)
    \/ \E p \in Turns, resp \in SendResponses : BotSendReturn(p, resp)
    \/ Cleanup
    \/ Tick

FairSpec ==
    /\ Init
    /\ [][SeqNext]_vars
    /\ \A p \in Turns : WF_vars(BackendReturns(p)) /\ WF_vars(Continues(p))

\* a streaming request next to one message turn, and the clock
StreamNext ==
    \/ \E s \in Streams, q \in {"c1", NoId} : StreamStart(s, q)
    \/ \E s \in Streams : StreamTokenOk(s)
    \/ \E s \in Streams : StreamTokenFail(s)
    \/ \E s \in Streams : CreateOk(s)
    \/ \E s \in Streams : CreateFail(s)
    \/ \E s \in Streams : StreamResolved(s)
    \/ \E s \in Streams : StreamRejected(s)
    \/ \E s \in Streams : StreamOpenOk(s)
    \/ \E s \in Streams, f \in OpenFailures : StreamOpenFail(s, f)
    \/ \E s \in Streams, chunk \in Chunks : StreamData(s, chunk)
    \/ \E s \in Streams : StreamEnd(s)
    \/ \E s \in Streams : StreamError(s)
    \/ BotStart("t1", "c1", "message")
    \/ BotTokenOk("t1")
    \/ BotTokenFail("t1")
    \/ CreateOk("t1")
    \/ CreateFail("t1")
    \/ BotResolved("t1")
    \/ BotRejected("t1")
    \/ \E resp \in SendResponses : BotSendReturn("t1", resp)
    \/ Tick

StreamSpec == Init /\ [][StreamNext]_vars

(***************************************************************************)
(* What the log of a request says.                                         *)
(***************************************************************************)
Idx(p, op) == {i \in 1..Len(log[p]) : log[p][i].op = op}
Count(p, op) == Cardinality(Idx(p, op))
IsSend(e) == e.op = "sendEinsteinMessage"
SendsOf(p) == SelectSeq(log[p], IsSend)
\* calls made so far: the completed ones and the one in flight
CreatesMade(p) ==
    Count(p, "createEinsteinSession") + (IF pc[p] = "create" THEN 1 ELSE 0)
SendsMade(p) ==
    Count(p, "sendEinsteinMessage") + (IF pc[p] = "send" THEN 1 ELSE 0)
TokensMade(p) ==
    Count(p, "getSalesforceToken") + (IF pc[p] = "token" THEN 1 ELSE 0)
CreatesAfterDelete(p) ==
    Cardinality({i \in Idx(p, "createEinsteinSession") :
                   \E d \in Idx(p, "delete") : d < i})

\* the first dispatch of p's turn failed with SESSION_EXPIRED and the second
\* succeeded
ExpiredThenOk(p) ==
    LET sends == SendsOf(p)
    IN  /\ Len(sends) >= 2
        /\ ~sends[1].ok /\ sends[1].val = SESSION_EXPIRED
        /\ sends[2].ok

RecoveredTurn(p) ==
    /\ pc[p] = "done"
    /\ Count(p, "delete") = 1
    /\ \A d \in Idx(p, "delete") :
          log[p][d + 1].op = "lookup" /\ log[p][d + 1].cached = 0
    /\ SendsMade(p) = 2
    /\ out[p] = <<Activity(StatusMessage), Activity(SendsOf(p)[2].val)>>

\* C1 as stated: a turn whose first dispatch fails with SESSION_EXPIRED and
\* whose second succeeds evicts once, dispatches twice, delivers the second
\* reply and makes exactly one createEinsteinSession call in the whole turn.
C1_AsStated ==
    \A p \in Turns :
        ExpiredThenOk(p) => RecoveredTurn(p) /\ CreatesMade(p) = 1

\* C1 amended: such a turn evicts once, dispatches twice, delivers the second
\* reply and no error, and makes exactly one createEinsteinSession call after
\* the eviction: one call in the whole turn when its first lookup hit the
\* cache, two when its first lookup missed.
C1_Recovery ==
    \A p \in Turns :
        ExpiredThenOk(p) =>
            /\ RecoveredTurn(p)
            /\ CreatesAfterDelete(p) = 1
            /\ CreatesMade(p) = IF log[p][2].ok THEN 1 ELSE 2

C1_Witness ==
    \E p \in Turns : ExpiredThenOk(p) /\ pc[p] = "done" /\ log[p][2].ok

\* C2: a turn never dispatches more than twice nor evicts more than once,
\* and a turn whose two dispatches both failed with SESSION_EXPIRED has made
\* exactly one retry and ended with the fixed error reply.
TwiceExpired(p) ==
    LET sends == SendsOf(p)
    IN  /\ Len(sends) >= 2
        /\ \A i \in 1..2 : ~sends[i].ok /\ sends[i].val = SESSION_EXPIRED

C2_SingleRetry ==
    \A p \in Turns :
        /\ SendsMade(p) <= 2
        /\ Count(p, "delete") <= 1
        /\ TwiceExpired(p) =>
              /\ pc[p] = "done"
              /\ SendsMade(p) = 2
              /\ Count(p, "delete") = 1
              /\ out[p] = <<Activity(StatusMessage), Activity(ErrorReply)>>

C2_Witness == \E p \in Turns : TwiceExpired(p) /\ pc[p] = "done"

(***************************************************************************)
(* getOrCreateSession and the cleanup.                                     *)
(***************************************************************************)
Lookups(p) == Idx(p, "lookup")
\* the getOrCreateSession call of lookup i called createEinsteinSession
CreateFollows(p, i) ==
    \/ i = Len(log[p]) /\ pc[p] = "create"
    \/ i < Len(log[p]) /\ log[p][i + 1].op = "createEinsteinSession"

\* C3: a lookup at t2 that finds an entry stamped t1 < t2 with
\* t2 - t1 < SESSION_TIMEOUT returns the entry's session id and calls no
\* createEinsteinSession.
C3_FreshEntryReused ==
    \A p \in Procs : \A i \in Lookups(p) :
        LET e == log[p][i]
        IN  (e.cached # 0 /\ 0 < e.age /\ e.age < SESSION_TIMEOUT) =>
                /\ e.ok
                /\ e.sid = e.cached
                /\ ~CreateFollows(p, i)

C3_Witness ==
    \E p \in Procs :
        /\ pc[p] = "resolved"
        /\ log[p][Len(log[p])].op = "lookup"
        /\ log[p][Len(log[p])].age > 0
        /\ log[p][Len(log[p])].age < SESSION_TIMEOUT
        /\ sessionId[p] = sessionCache[conv[p]].sessionId

\* a step in which p's createEinsteinSession returns a session id
Created(p) == pc[p] = "create" /\ pc'[p] = "resolved"

\* C4: a lookup that finds an entry older than SESSION_TIMEOUT calls
\* createEinsteinSession; the id that call gives differs from the cached
\* one, is what getOrCreateSession returns, and replaces the entry.
C4_StaleEntry ==
    \A p \in Procs : \A i \in Lookups(p) :
        LET e == log[p][i]
        IN  (e.cached # 0 /\ e.age > SESSION_TIMEOUT) =>
                /\ ~e.ok
                /\ CreateFollows(p, i)
                /\ (i < Len(log[p]) /\ log[p][i + 1].ok) =>
                      /\ log[p][i + 1].sid # e.cached
                      /\ log[p][i + 1].sid # 0

C4_Stored ==
    \A p \in Procs :
        Created(p) =>
            /\ sessionId'[p] = log'[p][Len(log'[p])].sid
            /\ sessionCache'[conv[p]].sessionId = sessionId'[p]
            /\ \A c \in AllConvs : sessionCache[c].sessionId # sessionId'[p]

C4_StaleEntryRecreated == []C4_StaleEntry /\ [][C4_Stored]_vars

C4_Witness ==
    \E p \in Procs :
        /\ pc[p] = "resolved"
        /\ Len(log[p]) >= 2
        /\ log[p][Len(log[p])].op = "createEinsteinSession"
        /\ log[p][Len(log[p])].ok
        /\ log[p][Len(log[p]) - 1].cached # 0
        /\ log[p][Len(log[p]) - 1].age > SESSION_TIMEOUT
        /\ sessionCache[conv[p]].sessionId = sessionId[p]

\* C5: a lookup returns the cached entry exactly when the entry is there and
\* younger than SESSION_TIMEOUT; an entry of that age or older is not
\* returned, swept or not.
C5_ReturnedIffYoung ==
    \A p \in Procs : \A i \in Lookups(p) :
        LET e == log[p][i]
        IN  /\ e.ok <=> (e.cached # 0 /\ e.age < SESSION_TIMEOUT)
            /\ e.sid = IF e.ok THEN e.cached ELSE 0

\* an entry aged exactly SESSION_TIMEOUT, left in place by a cleanup run at
\* that instant, is not returned
C5_Witness ==
    \E p \in Procs :
        /\ pc[p] = "create"
        /\ log[p][Len(log[p])].op = "lookup"
        /\ log[p][Len(log[p])].age = SESSION_TIMEOUT
        /\ sessionCache[conv[p]].sessionId = log[p][Len(log[p])].cached
        /\ cleanupAt = now

\* a step of the cleanup timer: no request moves and no time passes
CleanupRan == pc' = pc /\ log' = log /\ now' = now

SweptAt(t) ==
    {c \in AllConvs :
        sessionCache[c] # None /\ t - sessionCache[c].timestamp > SESSION_TIMEOUT}

\* C6: a cleanup run at `now` removes exactly the entries with
\* now - timestamp > SESSION_TIMEOUT, leaves the others as they were and
\* counts the entries it removed.
C6_Cleanup ==
    [][CleanupRan =>
          /\ \A c \in AllConvs :
                sessionCache'[c] = IF c \in SweptAt(now) THEN None
                                   ELSE sessionCache[c]
          /\ expiredCount' = Cardinality(SweptAt(now))
          /\ cleanupAt' = now]_vars

C6_Witness ==
    /\ cleanupAt = now
    /\ expiredCount > 0
    /\ \E c \in AllConvs : sessionCache[c] # None

\* C7: a turn whose token fetch failed has made that one call only (no
\* session, dispatch or second token call, no cache write), has ended with
\* the error reply, and the failing step leaves sessionCache as it was.
TokenFailed(p) == Len(log[p]) >= 1 /\ ~log[p][1].ok

C7_Ended ==
    \A p \in Turns :
        TokenFailed(p) =>
            /\ pc[p] = "done"
            /\ Len(log[p]) = 1
            /\ TokensMade(p) = 1 /\ CreatesMade(p) = 0 /\ SendsMade(p) = 0
            /\ out[p] = <<Activity(StatusMessage), Activity(ErrorReply)>>

C7_TokenFailure ==
    /\ []C7_Ended
    /\ [][\A p \in Turns :
             (pc[p] = "token" /\ TokenFailed(p)') => sessionCache' = sessionCache]_vars

C7_Witness ==
    \E p \in Turns, c \in AllConvs :
        TokenFailed(p) /\ pc[p] = "done" /\ sessionCache[c] # None

\* C8: when createEinsteinSession fails, getOrCreateSession rejects and
\* leaves sessionCache as it was; an entry is written only by a step in which
\* a creation call returns a session id, and holds that id.
CreateFailed(p) ==
    /\ pc[p] = "create"
    /\ Len(log'[p]) = Len(log[p]) + 1
    /\ log'[p][Len(log'[p])].op = "createEinsteinSession"
    /\ ~log'[p][Len(log'[p])].ok

FinalMessage(p) ==
    LET last == log[p][Len(log[p])]
    IN  /\ pc[p] = "done"
        /\ Len(out[p]) = 2
        /\ out[p][1] = Activity(StatusMessage)
        /\ out[p][2] = IF IsSend(last) /\ last.ok THEN Activity(last.val)
                       ELSE Activity(ErrorReply)

\* C9: when every backend call returns, every message turn ends, and it ends
\* with exactly one final message: the reply on success, the fixed error
\* reply on any failure.  No message follows the status message before the
\* end, and the turn is never left in a failed call.
C9_TurnEnds ==
    \A p \in Turns :
        /\ (pc[p] = "token") ~> FinalMessage(p)
        /\ [](pc[p] \in {"idle", "ignored", "token", "create", "resolved",
                         "rejected", "send", "done"})
        /\ [](Len(out[p]) <= 2 /\ (Len(out[p]) = 2 => FinalMessage(p)))

C9_Witness ==
    \E p \in Turns :
        /\ FinalMessage(p)
        /\ out[p][2] = Activity(ErrorReply)
        /\ IsSend(log[p][Len(log[p])])
        /\ log[p][Len(log[p])].val = FailedToSend

(***************************************************************************)
(* The streaming endpoint.                                                 *)
(***************************************************************************)
IsChunk(e) == e.op = "chunk"
ChunksOf(s) == SelectSeq(log[s], IsChunk)
\* one data event per chunk received, in the order received
Relayed(s) == [i \in 1..Len(ChunksOf(s)) |-> DataEvent(ChunksOf(s)[i].val)]
EndedNormally(s) ==
    /\ Len(log[s]) >= 1
    /\ log[s][Len(log[s])].op = "end"
    /\ log[s][Len(log[s])].ok

\* C10: while the backend stream delivers chunks the caller has received one
\* data event per chunk, in order, and nothing else; once the stream has
\* ended normally after N chunks the caller has received those N data
\* events, then one done event, and the response is closed after it.
C10_StreamRelay ==
    \A s \in Streams :
        /\ pc[s] = "streaming" => out[s] = Relayed(s)
        /\ EndedNormally(s) =>
              /\ pc[s] = "done"
              /\ out[s] = Relayed(s) \o <<DoneEvent, EndOfResponse>>

C10_Witness ==
    \E s \in Streams :
        /\ EndedNormally(s)
        /\ Len(ChunksOf(s)) >= 2
        /\ ChunksOf(s)[1].val # ChunksOf(s)[2].val
        /\ out[s][Len(out[s])] = EndOfResponse

\* the streaming request has failed: its last completed call is a failed
\* backend call that the handler does not try again
IsTerminal(o) == o.event \in {"done", "error"}
StreamFailed(s) ==
    /\ Len(log[s]) >= 1
    /\ ~log[s][Len(log[s])].ok
    /\ log[s][Len(log[s])].op \in
          {"getSalesforceToken", "createEinsteinSession", "stream", "end"}
    /\ pc[s] # "rejected"

ErrorDelivered(s) ==
    /\ pc[s] = "done"
    /\ Len(out[s]) >= 2
    /\ out[s][Len(out[s]) - 1] = ErrorEvent(log[s][Len(log[s])].val)
    /\ out[s][Len(out[s])] = EndOfResponse
    /\ Len(SelectSeq(out[s], IsTerminal)) = 1

\* C11: a streaming request whose backend call has failed (token, session,
\* opening the stream, or mid-stream) has written one error event carrying
\* the failure detail as its only terminal event and has closed the response
\* right after it; a request that is over has written exactly one terminal
\* event.
C11_AsStated ==
    \A s \in Streams :
        /\ StreamFailed(s) => ErrorDelivered(s)
        /\ pc[s] \in {"done", "uncaught"} =>
              Len(SelectSeq(out[s], IsTerminal)) = 1

(***************************************************************************)
(* Concurrent requests on one conversation.                                *)
(***************************************************************************)
\* p has a backend call in flight that is addressed to its session handle
Uses(p) == pc[p] \in {"send", "open", "streaming"}

\* C12: sessionCache, a map, holds one entry per conversation id at most,
\* and two requests running at the same time for the same conversation id
\* never use two different session handles.
C12_AsStated ==
    /\ \A c \in AllConvs :
          Cardinality({e \in {sessionCache[c]} : e # None}) <= 1
    /\ \A p, q \in Procs :
          (Uses(p) /\ Uses(q) /\ conv[p] = conv[q]) =>
              sessionId[p] = sessionId[q]

\* a step in which p runs the cache lookup of getOrCreateSession
LookedUp(p) ==
    /\ Len(log'[p]) > Len(log[p])
    /\ log'[p][Len(log'[p])].op = "lookup"

\* the handle p's last successful creation call gave (0: none)
CreatedHandle(p) ==
    LET made == {i \in Idx(p, "createEinsteinSession") : log[p][i].ok}
    IN  IF made = {} THEN 0
        ELSE log[p][CHOOSE i \in made : \A j \in made : j <= i].sid

\* p created the handle the store holds for its conversation and is about
\* to dispatch, or is dispatching, with it
DispatchesWithStored(p) ==
    /\ pc[p] \in {"resolved", "send"}
    /\ sessionId[p] # 0
    /\ sessionId[p] = CreatedHandle(p)
    /\ sessionCache[conv[p]].sessionId = sessionId[p]

\* C13: a turn that looks up the cache while another turn of the same
\* conversation is inside its creation call misses and calls
\* createEinsteinSession too.  When the second of the two creation calls
\* returns, the store holds one entry for the conversation, with the handle
\* written by this later set; the handle written earlier is in the store no
\* more, and the turn that created it still dispatches with it.
C13_BothMiss ==
    \A p, q \in Turns :
        (p # q /\ pc[p] = "create" /\ LookedUp(q) /\ conv'[q] = conv[p]) =>
            /\ ~log'[q][Len(log'[q])].ok
            /\ pc'[q] = "create"

C13_LaterSetWins ==
    \A p, q \in Turns :
        (p # q /\ conv[p] = conv[q] /\ DispatchesWithStored(p) /\ Created(q)) =>
            /\ sessionCache'[conv[q]] =
                  [sessionId |-> sessionId'[q], timestamp |-> gnow[q]]
            /\ sessionId'[q] = CreatedHandle(q)'
            /\ sessionId'[q] # sessionId[p]
            /\ \A c \in AllConvs : sessionCache'[c].sessionId # sessionId[p]
            /\ sessionId'[p] = sessionId[p]
            /\ pc'[p] = pc[p]

C13_Race == [][C13_BothMiss /\ C13_LaterSetWins]_vars

\* both turns looked up an empty store that nothing has swept or evicted
\* from, so each lookup came before the other's creation call returned; both
\* created, the store holds the later handle and the first turn is
\* dispatching with the earlier one
C13_Witness ==
    \E p, q \in Turns :
        /\ p # q /\ conv[p] = conv[q]
        /\ cleanupAt = -1
        /\ Count(p, "delete") = 0 /\ Count(q, "delete") = 0
        /\ Len(log[p]) = 3 /\ Len(log[q]) = 3
        /\ log[p][2].cached = 0 /\ log[q][2].cached = 0
        /\ log[p][3].ok /\ log[q][3].ok
        /\ log[p][3].sid < log[q][3].sid
        /\ sessionCache[conv[p]].sessionId = log[q][3].sid
        /\ pc[p] = "send" /\ sessionId[p] = log[p][3].sid

\* the evictions of p's turn: the log positions of its sessionCache.delete
\* calls, each right after the dispatch that failed with SESSION_EXPIRED
Evictions(p) == Idx(p, "delete")

\* C14: the entry a turn deletes after SESSION_EXPIRED for handle h, if there
\* is one, holds h: an entry with another handle is never removed by the
\* eviction.
C14_AsStated ==
    \A p \in Turns : \A d \in Evictions(p) :
        /\ log[p][d - 1].op = "sendEinsteinMessage"
        /\ log[p][d - 1].val = SESSION_EXPIRED
        /\ log[p][d].ok => log[p][d].sid = log[p][d - 1].sid

\* a step in which p's turn evicts
Evicted(p) == Count(p, "delete")' = Count(p, "delete") + 1

\* C15: the lookup of the second getOrCreateSession call comes right after
\* the eviction, in the same step, finds no entry whatever the other turns
\* and the cleanup do, and is followed by a createEinsteinSession call.
C15_Retried ==
    \A p \in Turns : \A d \in Evictions(p) :
        /\ d < Len(log[p])
        /\ log[p][d + 1].op = "lookup"
        /\ ~log[p][d + 1].ok
        /\ log[p][d + 1].cached = 0
        /\ log[p][d + 1].sid = 0
        /\ CreateFollows(p, d + 1)

C15_EvictStep ==
    \A p \in Turns :
        Evicted(p) =>
            /\ sessionCache'[conv[p]] = None
            /\ pc'[p] = "create"
            /\ log'[p][Len(log'[p])].op = "lookup"

C15_RetryAlwaysCreates == []C15_Retried /\ [][C15_EvictStep]_vars

\* a turn has evicted and is in its second creation call while the other
\* turn of the same conversation is in a creation call of its own
C15_Witness ==
    \E p, q \in Turns :
        /\ p # q /\ conv[p] = conv[q]
        /\ Count(p, "delete") = 1
        /\ pc[p] = "create"
        /\ pc[q] = "create"

(***************************************************************************)
(* Failures that are not retried.                                          *)
(***************************************************************************)
\* a failed call that is not SESSION_EXPIRED: a dispatch that failed with
\* the generic failure, or a failed creation call
OtherFailure(e) ==
    \/ e.op = "sendEinsteinMessage" /\ ~e.ok /\ e.val = FailedToSend
    \/ e.op = "createEinsteinSession" /\ ~e.ok

\* C16: once a turn has such a failure it makes no further backend call and
\* no sessionCache.delete (the failure stays the last entry of its log), no
\* call is in flight, and the turn ends with the fixed error reply; neither
\* the failing step nor the step that sends the reply changes sessionCache.
C16_Ended ==
    \A p \in Turns : \A i \in 1..Len(log[p]) :
        OtherFailure(log[p][i]) =>
            /\ i = Len(log[p])
            /\ pc[p] \in {"rejected", "done"}
            /\ pc[p] = "done" =>
                  out[p] = <<Activity(StatusMessage), Activity(ErrorReply)>>

C16_NoEviction ==
    \A p \in Turns :
        (Len(log'[p]) >= 1 /\ OtherFailure(log'[p][Len(log'[p])])
         /\ (log'[p] # log[p] \/ pc'[p] # pc[p])) =>
            /\ sessionCache' = sessionCache
            /\ pc'[p] \in {"rejected", "done"}

C16_NoRetry == []C16_Ended /\ [][C16_NoEviction]_vars

\* a first dispatch failed with the generic failure; the turn has ended and
\* the entry it used is still in the store
C16_Witness ==
    \E p \in Turns :
        /\ pc[p] = "done"
        /\ ~retried[p]
        /\ log[p][Len(log[p])].op = "sendEinsteinMessage"
        /\ log[p][Len(log[p])].val = FailedToSend
        /\ sessionCache[conv[p]].sessionId = log[p][Len(log[p])].sid
        /\ out[p] = <<Activity(StatusMessage), Activity(ErrorReply)>>

(***************************************************************************)
(* The entries of the store.                                               *)
(***************************************************************************)
\* a step in which p's lookup hits the cache
Reused(p) == LookedUp(p) /\ log'[p][Len(log'[p])].ok

\* C17: a step in which a lookup hits leaves the whole store as it was and
\* gives the entry's handle; an entry keeps its timestamp for as long as it
\* keeps its handle, so it stops being reusable SESSION_TIMEOUT after it was
\* stamped, reused or not.
C17_HitStep ==
    \A p \in Procs :
        Reused(p) =>
            /\ sessionCache' = sessionCache
            /\ sessionId'[p] = sessionCache[conv'[p]].sessionId

C17_FixedStamp ==
    \A c \in AllConvs :
        (sessionCache[c] # None
         /\ sessionCache'[c].sessionId = sessionCache[c].sessionId) =>
            sessionCache'[c].timestamp = sessionCache[c].timestamp

C17_NoTouchOnReuse == [][C17_HitStep /\ C17_FixedStamp]_vars

\* an entry that a turn has reused is still in the store, with the stamp of
\* its creation, and is too old to be reused again
C17_Witness ==
    \E p, q \in Turns :
        /\ p # q
        /\ pc[q] = "resolved"
        /\ log[q][Len(log[q])].op = "lookup"
        /\ log[q][Len(log[q])].ok
        /\ sessionCache[conv[q]].sessionId = log[q][Len(log[q])].sid
        /\ CreatedHandle(p) = sessionCache[conv[q]].sessionId
        /\ now - sessionCache[conv[q]].timestamp >= SESSION_TIMEOUT
        /\ ~CacheHit(sessionCache[conv[q]], now)

\* C18: the entry getOrCreateSession stores for a newly created session is
\* stamped with the time at which it is written, that is the time at which
\* the creation call has returned.
C18_AsStated ==
    [][\A p \in Procs :
          Created(p) =>
              sessionCache'[conv[p]] =
                  [sessionId |-> sessionId'[p], timestamp |-> now]]_vars

\* handle h was returned by a successful createEinsteinSession call that a
\* request made for conversation c
CreatedFor(h, c) ==
    \E q \in Procs :
        /\ conv[q] = c
        /\ \E i \in Idx(q, "createEinsteinSession") :
              log[q][i].ok /\ log[q][i].sid = h

\* the handles p's request has been given or has dispatched with
HandlesOf(p) ==
    {log[p][i].sid : i \in Idx(p, "lookup") \cup Idx(p, "sendEinsteinMessage")
                         \cup Idx(p, "stream")}
    \cup {sessionId[p]}

\* C19: every entry of the store holds a handle created for the
\* conversation it is stored under, and every handle a request was given by
\* getOrCreateSession or dispatched with was created for the request's own
\* conversation and for no other.
C19_HandlesStayWithConversation ==
    /\ \A c \in AllConvs :
          sessionCache[c] # None =>
              /\ CreatedFor(sessionCache[c].sessionId, c)
              /\ \A d \in AllConvs \ {c} :
                    ~CreatedFor(sessionCache[c].sessionId, d)
    /\ \A p \in Procs : \A h \in HandlesOf(p) \ {0} :
          /\ CreatedFor(h, conv[p])
          /\ \A d \in AllConvs \ {conv[p]} : ~CreatedFor(h, d)

\* two turns of different conversations are dispatching, each with the
\* handle stored for its own conversation
C19_Witness ==
    \E p, q \in Turns :
        /\ pc[p] = "send" /\ pc[q] = "send"
        /\ conv[p] # conv[q]
        /\ sessionCache[conv[p]].sessionId = sessionId[p]
        /\ sessionCache[conv[q]].sessionId = sessionId[q]
        /\ sessionId[p] # 0 /\ sessionId[q] # 0

\* a step of request p
Moved(p) == pc'[p] # pc[p] \/ log'[p] # log[p]

\* C20: a step of a request for conversation C leaves the entries of all
\* other conversations as they were; an entry changes only in a step of a
\* request for its own conversation, or is removed by the cleanup.
C20_OwnEntryOnly ==
    \A p \in Procs :
        Moved(p) =>
            \A c \in AllConvs \ {conv'[p]} : sessionCache'[c] = sessionCache[c]

C20_OnlyCleanupElse ==
    \A c \in AllConvs :
        sessionCache'[c] # sessionCache[c] =>
            \/ \E p \in Procs : Moved(p) /\ conv'[p] = c
            \/ CleanupRan /\ sessionCache'[c] = None

====
